---- MODULE Spec2Model ----
(***************************************************************************)
(* Verification model of cppformlang: the finite-automaton core (State /   *)
(* Symbol / Epsilon value objects, TransitionFunction,                     *)
(* NondeterministicTransitionFunction, NondeterministicFiniteAutomaton,    *)
(* EpsilonNFA, DeterministicFiniteAutomaton), regular expressions (Regex   *)
(* and its parse tree) and context-free grammars (Production, CFG).        *)
(*                                                                         *)
(* Objects held through std::shared_ptr are records carrying their label   *)
(* and an object identity (id).  Two records are the same object iff they  *)
(* are equal as records; operator== of the C++ classes is modelled by      *)
(* StateEq / SymbolEq and compares labels only.                            *)
(***************************************************************************)
EXTENDS Integers, Sequences, FiniteSets, TLC

VARIABLES aut, heapD, heapN, res, pre, last, hist, ctor, lastSet,
          epsAdded, symEpsAdded, nsink, nops,
          rx, rxSrc, rxOps, rxCall,
          prod, prodArgs, cfg, cfgArgs, gres, glast,
          impl, wcall, g_symbols, to_process, pushed,
          generating_symbols_, nullable_symbols_

\* the finite-automaton part of the state
autvars == <<aut, heapD, heapN, res, pre, last, hist, ctor, lastSet,
             epsAdded, symEpsAdded, nsink, nops>>

\* the regular-expression part of the state
rxvars == <<rx, rxSrc, rxOps, rxCall>>

\* the grammar part of the state
gvars == <<prod, prodArgs, cfg, cfgArgs, gres, glast>>

\* one call of CFG::get_generating_or_nullable and the two caches of the CFG
wvars == <<impl, wcall, g_symbols, to_process, pushed,
           generating_symbols_, nullable_symbols_>>

vars == <<autvars, rxvars, gvars, wvars>>

(***************************************************************************)
(* Bounds of the exploration.                                              *)
(***************************************************************************)
MaxOps == 3
MaxWordLen == 2
MaxRegexOps == 3
MaxRegexLen == 2
MaxBodyLen == 2
MaxProds == 2

(***************************************************************************)
(* Value objects.                                                          *)
(***************************************************************************)
\* std::make_shared<State>(label): a State object; id is the object identity
St(l, i) == [label |-> l, id |-> i]

\* the null shared_ptr<State>
Null == [label |-> "nullptr", id |-> 0]

\* State::operator== compares value_ only
StateEq(s, t) == s.label = t.label

\* std::make_shared<Symbol>(label)
Sy(l, i) == [label |-> l, kind |-> "Symbol", id |-> i]

\* std::make_shared<Epsilon>(): Epsilon() : Symbol("ε"); "eps" stands for the text "ε"
Eps(i) == [label |-> "eps", kind |-> "Epsilon", id |-> i]

\* Symbol::operator==(const Symbol&) is non-virtual and compares value_ only;
\* through a shared_ptr<Symbol> it is the one called for Epsilon objects too
SymbolEq(x, y) == x.label = y.label

\* the State objects callers hold: two distinct objects labelled q0, one labelled q1
StateObjs == {St("q0", 1), St("q0", 2), St("q1", 1)}

\* the Symbol objects callers pass to add_transition: an ordinary symbol, an
\* ordinary symbol whose label is the epsilon text, and an Epsilon object
SymObjs == {Sy("a", 1), Sy("eps", 1), Eps(1)}

\* the symbols tried on an automaton of class c
SymArgs(c) == IF c = "EpsilonNFA" THEN {Sy("a", 1), Sy("eps", 1)} ELSE {Sy("a", 1), Eps(1)}

\* the Epsilon object an EpsilonNFA creates for itself (epsilon_)
EpsMember == Eps(0)

\* labels a caller may put in a word given to accepts(vector<string>)
WordLabels == {"a", "b", "eps"}

Words == UNION {[1..n -> WordLabels] : n \in 0..MaxWordLen}

Labels(S) == {s.label : s \in S}

(***************************************************************************)
(* TransitionFunction (deterministic): an unordered_map keyed by           *)
(* (StatePtr, SymbolPtr) with PairHash / PairEqual, modelled as the set of *)
(* its entries.                                                            *)
(***************************************************************************)
\* a plausible slip: keys compared as pointers (the default for shared_ptr)
PairEqualByPointer(p1, p2) == p1[1] = p2[1] /\ p1[2] = p2[2]

\* PairEqual: *p1.first == *p2.first && *p1.second == *p2.second
PairEqual(p1, p2) == StateEq(p1[1], p2[1]) /\ SymbolEq(p1[2], p2[2])

\* transitions_.find({from_state, symbol})
TF_find(T, from, sym) ==
    {e \in T : PairEqual(<<e.from, e.sym>>, <<from, sym>>)}

\* transitions_[{from_state, symbol}] = to_state
TF_add_transition(T, from, sym, to) ==
    LET hit == TF_find(T, from, sym) IN
    IF hit # {}
    THEN (T \ hit) \cup {[e EXCEPT !.to = to] : e \in hit}
    ELSE T \cup {[from |-> from, sym |-> sym, to |-> to]}

\* get_next_state: the stored target, or nullptr
TF_get_next_state(T, from, sym) ==
    LET hit == TF_find(T, from, sym) IN
    IF hit # {} THEN (CHOOSE e \in hit : TRUE).to ELSE Null

(***************************************************************************)
(* NondeterministicTransitionFunction: the map's values are                *)
(* unordered_set<StatePtr>, i.e. sets of State objects compared as         *)
(* pointers.                                                               *)
(***************************************************************************)
NTF_find(T, from, sym) ==
    {e \in T : PairEqual(<<e.from, e.sym>>, <<from, sym>>)}

\* transitions_[{from_state, symbol}].insert(to_state)
NTF_add_transition(T, from, sym, to) ==
    LET hit == NTF_find(T, from, sym) IN
    IF hit # {}
    THEN (T \ hit) \cup {[e EXCEPT !.tos = @ \cup {to}] : e \in hit}
    ELSE T \cup {[from |-> from, sym |-> sym, tos |-> {to}]}

NTF_get_next_states(T, from, sym) ==
    LET hit == NTF_find(T, from, sym) IN
    IF hit # {} THEN (CHOOSE e \in hit : TRUE).tos ELSE {}

(***************************************************************************)
(* Automata.  One record shape for the three classes; cls is the dynamic   *)
(* class.  tf is the shared_ptr member that accepts() reads              *)
(* (transition_function_dfa_ of a DFA, transition_function_ of an NFA or   *)
(* EpsilonNFA): an index into heapD / heapN, so that copies of the pointer *)
(* share the pointee.  The transition_function_ a DFA inherits is never    *)
(* read or written by a DFA method and is left out.                        *)
(***************************************************************************)
\* the object make_shared<TransitionFunction>() returns, or the caller's
NewTf == "tf1"

NoAut == [cls |-> "none", states_ |-> {}, input_symbols_ |-> {},
          start_states_ |-> {}, final_states_ |-> {}, tf |-> NewTf]

\* NondeterministicFiniteAutomaton(states, input_symbols, tf, start_states, final_states)
NfaCtor(cls, states, syms, starts, finals) ==
    [cls |-> cls, states_ |-> states, input_symbols_ |-> syms,
     start_states_ |-> starts, final_states_ |-> finals, tf |-> NewTf]

\* DeterministicFiniteAutomaton(states, input_symbols, tf, start_state, final_states)
DfaCtor(states, syms, start, finals) ==
    LET base == NfaCtor("DFA", states, syms, {}, finals) IN
    IF start # Null
    THEN [base EXCEPT !.start_states_ = @ \cup {start}, !.states_ = @ \cup {start}]
    ELSE base

\* add_start_state
AddStartState(a, s) ==
    [a EXCEPT !.states_ = @ \cup {s}, !.start_states_ = @ \cup {s}]

\* add_final_state
AddFinalState(a, s) ==
    [a EXCEPT !.states_ = @ \cup {s}, !.final_states_ = @ \cup {s}]

\* set_start_state: insert, clear, insert
SetStartState(a, s) ==
    [a EXCEPT !.states_ = @ \cup {s}, !.start_states_ = {s}]

\* the automaton-side part of add_transition (both classes)
AddTransitionSets(a, from, sym, to) ==
    [a EXCEPT !.states_ = @ \cup {from, to}, !.input_symbols_ = @ \cup {sym}]

\* the automaton-side part of add_epsilon_transition
AddEpsilonSets(a, from, to) ==
    [a EXCEPT !.states_ = @ \cup {from, to}]

\* std::make_shared<Symbol>(symbol_str) inside accepts(vector<string>)
MakeSymbol(l) == Sy(l, 2)

\* the loop of DeterministicFiniteAutomaton::accepts; Null when a transition is missing
RECURSIVE DfaRun(_, _, _)
DfaRun(T, cur, w) ==
    IF w = <<>> THEN cur
    ELSE LET nxt == TF_get_next_state(T, cur, MakeSymbol(Head(w))) IN
         IF nxt = Null THEN Null ELSE DfaRun(T, nxt, Tail(w))

\* accepts once the start state (*start_states_.begin()) is known
DfaAcceptsFrom(a, T, s, w) ==
    LET c == DfaRun(T, s, w) IN c # Null /\ c \in a.final_states_

\* *start_states_.begin() of an unordered_set: any element of the set
Begin(S) == S

\* DeterministicFiniteAutomaton::accepts: the answers the build can give
DfaAccepts(a, T, w) ==
    IF a.start_states_ = {} THEN {FALSE}
    ELSE {DfaAcceptsFrom(a, T, s, w) : s \in Begin(a.start_states_)}

\* the loop of NondeterministicFiniteAutomaton::accepts
RECURSIVE NfaRun(_, _, _)
NfaRun(T, cur, w) ==
    IF w = <<>> THEN cur
    ELSE NfaRun(T,
                UNION {NTF_get_next_states(T, s, MakeSymbol(Head(w))) : s \in cur},
                Tail(w))

\* NondeterministicFiniteAutomaton::accepts
NfaAccepts(a, T, w) ==
    \E s \in NfaRun(T, a.start_states_, w) : s \in a.final_states_

\* NondeterministicFiniteAutomaton::accepts_epsilon
AcceptsEpsilon(a) == \E s \in a.start_states_ : s \in a.final_states_

\* EpsilonNFA::accepts: "Implementation will be added", return false
EnfaAccepts(a, T, w) == FALSE

\* virtual dispatch of accepts on the dynamic class
Accepts(a, TD, TN, w) ==
    CASE a.cls = "DFA" -> DfaAccepts(a, TD, w)
      [] a.cls = "NFA" -> {NfaAccepts(a, TN, w)}
      [] OTHER -> {EnfaAccepts(a, TN, w)}

(***************************************************************************)
(* Completion and complement of a DFA.                                     *)
(***************************************************************************)
\* is_complete
IsComplete(a, T) ==
    \A s \in a.states_ : \A y \in a.input_symbols_ :
        TF_get_next_state(T, s, y) # Null

\* the (state label, symbol label) pairs the filling loop finds without a transition
MissingKeys(a, T) ==
    {<<s.label, y.label>> : <<s, y>> \in
        {p \in a.states_ \X a.input_symbols_ : TF_get_next_state(T, p[1], p[2]) = Null}}

\* the entry the filling loop inserts for a missing pair: its key objects are
\* those of the first (state, symbol) the unordered iteration meets with these labels
FillEntries(a, k, sink) ==
    {[from |-> s, sym |-> y, to |-> sink] :
        <<s, y>> \in {p \in a.states_ \X a.input_symbols_ :
                          p[1].label = k[1] /\ p[2].label = k[2]}}

\* every set of entries the filling loop can insert, one entry per missing pair
RECURSIVE Fills(_, _, _)
Fills(a, keys, sink) ==
    IF keys = {} THEN {{}}
    ELSE LET k == CHOOSE x \in keys : TRUE IN
         {F \cup {e} : <<F, e>> \in Fills(a, keys \ {k}, sink) \X FillEntries(a, k, sink)}

\* "Add self-loops for the sink state": add_transition(sink, symbol, sink) for each symbol
RECURSIVE SinkLoops(_, _, _)
SinkLoops(T, syms, sink) ==
    IF syms = {} THEN T
    ELSE LET y == CHOOSE x \in syms : TRUE IN
         SinkLoops(TF_add_transition(T, sink, y, sink), syms \ {y}, sink)

\* make_complete: the results the build can produce, each with the contents
\* of the TransitionFunction object afterwards (the copy shares the pointer)
MakeCompleteOutcomes(a, T, sink) ==
    IF IsComplete(a, T)
    THEN {[r |-> a, T |-> T, fresh |-> 0]}
    ELSE LET r0 == [a EXCEPT !.states_ = @ \cup {sink}] IN
         {[r |-> r0,
           T |-> SinkLoops(T \cup F, r0.input_symbols_, sink),
           fresh |-> 1] : F \in Fills(r0, MissingKeys(r0, T), sink)}

\* start_state(): nullptr, or *start_states_.begin()
StartState(a) == IF a.start_states_ = {} THEN {Null} ELSE Begin(a.start_states_)

\* complement: make_complete, a DFA constructed on the same sets and the
\* same TransitionFunction pointer, then add_final_state for every non-final state
ComplementOutcomes(a, T, sink) ==
    {[r |-> LET c == mo.r
                nonfinal == c.states_ \ c.final_states_
                d == [DfaCtor(c.states_, c.input_symbols_, s, {}) EXCEPT !.tf = c.tf]
            IN [d EXCEPT !.states_ = @ \cup nonfinal, !.final_states_ = @ \cup nonfinal],
      T |-> mo.T,
      fresh |-> mo.fresh] :
        <<mo, s>> \in {p \in MakeCompleteOutcomes(a, T, sink) \X (StateObjs \cup {Null, sink}) :
                          p[2] \in StartState(p[1].r)}}

\* what a caller can observe of a DFA through its public interface
Observable(a, T) ==
    [states |-> a.states_, input_symbols |-> a.input_symbols_,
     start_states |-> a.start_states_, final_states |-> a.final_states_,
     transitions |-> T, is_complete |-> IsComplete(a, T)]

NoSnap == Observable(NoAut, {})

(***************************************************************************)
(* Regular expressions.  A parse tree node is a record tagged with its     *)
(* class; a std::string is the sequence of its characters.                 *)
(***************************************************************************)
\* regular_expression::Symbol(value)
RSymbol(v) == [op |-> "Symbol", value |-> v]

\* regular_expression::Epsilon
REpsilon == [op |-> "Epsilon"]

\* regular_expression::EmptyLanguage
REmptyLanguage == [op |-> "EmptyLanguage"]

\* regular_expression::Concatenation(left, right)
RConcatenation(l, r) == [op |-> "Concatenation", left |-> l, right |-> r]

\* regular_expression::Union(left, right)
RUnion(l, r) == [op |-> "Union", left |-> l, right |-> r]

\* regular_expression::KleeneStar(obj)
RKleeneStar(x) == [op |-> "KleeneStar", obj |-> x]

\* a null std::shared_ptr<RegexObject>
RNull == [op |-> "nullptr"]

\* RegexObject::to_string as overridden by each node class; "eps" stands for
\* the epsilon character and "empty" for the empty-set character
RECURSIVE RegexObjectToString(_)
RegexObjectToString(t) ==
    CASE t.op = "Symbol" -> t.value
      [] t.op = "Epsilon" -> "eps"
      [] t.op = "EmptyLanguage" -> "empty"
      [] t.op = "Concatenation" ->
            "(" \o RegexObjectToString(t.left) \o " · " \o RegexObjectToString(t.right) \o ")"
      [] t.op = "Union" ->
            "(" \o RegexObjectToString(t.left) \o " + " \o RegexObjectToString(t.right) \o ")"
      [] t.op = "KleeneStar" -> "(" \o RegexObjectToString(t.obj) \o ")*"

\* Regex::to_string
RegexToString(r) == IF r.root # RNull THEN RegexObjectToString(r.root) ELSE "null"

\* Regex::parse: an empty string gives Epsilon, any other string a Symbol of its
\* first character; the function has no throw statement
Parse(regex) == IF regex = <<>> THEN REpsilon ELSE RSymbol(SubSeq(regex, 1, 1)[1])

\* Regex::Regex(const std::string&): root_(parse(regex)); error names the
\* exception leaving the constructor
RegexFromString(regex) == [root |-> Parse(regex), error |-> "none"]

\* Regex::Regex(std::shared_ptr<RegexObject>)
RegexFromTree(root) == [root |-> root, error |-> "none"]

\* no Regex object
NoRegex == [root |-> RNull, error |-> "none"]

\* Regex::to_epsilon_nfa: a default-constructed EpsilonNFA whatever the tree
ToEpsilonNfa(r) == NfaCtor("EpsilonNFA", {}, {}, {}, {})

\* Regex::accepts: to_epsilon_nfa()->accepts(word); the fresh automaton has an
\* empty transition function
RegexAccepts(r, w) == EnfaAccepts(ToEpsilonNfa(r), {}, w)

\* Regex::union_with
UnionWith(r, other) == RegexFromTree(RUnion(r.root, other.root))

\* the operands the other way round
ConcatenateSwapped(r, other) == RegexFromTree(RConcatenation(other.root, r.root))

\* Regex::concatenate
Concatenate(r, other) == RegexFromTree(RConcatenation(r.root, other.root))

\* Regex::kleene_star
KleeneStar(r) == RegexFromTree(RKleeneStar(r.root))

\* characters of the strings a Regex is constructed from
RegexChars == {"a", "(", ")", "+", "*"}

RegexStrings == UNION {[1..n -> RegexChars] : n \in 0..MaxRegexLen}

\* leaves a Regex is constructed from
RegexLeaves == {RSymbol("a"), RSymbol("b"), REpsilon, REmptyLanguage}

\* the other operand of union_with and concatenate
RegexOthers == {RegexFromTree(RSymbol("a")), RegexFromTree(RSymbol("b")),
                RegexFromTree(RConcatenation(RSymbol("a"), RSymbol("b")))}

\* words a Regex is asked about
RegexWords == UNION {[1..n -> {"a", "b"}] : n \in 0..MaxWordLen}

\* how the Regex held in rx was constructed
NoSrc == [kind |-> "none", text |-> <<>>]

(***************************************************************************)
(* Context-free grammars.  Variable, Terminal and cfg::Epsilon objects are *)
(* records carrying their label, their class and an object identity.       *)
(***************************************************************************)
\* std::make_shared<Variable>(value)
GVar(l, i) == [label |-> l, kind |-> "Variable", id |-> i]

\* std::make_shared<Terminal>(value)
GTerm(l, i) == [label |-> l, kind |-> "Terminal", id |-> i]

\* std::make_shared<cfg::Epsilon>(): Epsilon() : CFGObject(epsilon character)
GEps(i) == [label |-> "eps", kind |-> "Epsilon", id |-> i]

\* a null std::shared_ptr<CFGObject>
GNull == [label |-> "nullptr", kind |-> "nullptr", id |-> 0]

\* a test by text, which also takes a Terminal whose text is the epsilon text
IsEpsilonByLabel(obj) == obj.label = GEps(0).label

\* the lambda of Production::Production: dynamic_cast<Epsilon*>(obj.get()) != nullptr
IsEpsilonObject(obj) == obj.kind = "Epsilon"

\* std::remove_if followed by erase: the elements from position i on that the
\* lambda rejects are moved, in order, behind those already kept in out
RECURSIVE RemoveIf(_, _, _)
RemoveIf(body, i, out) ==
    IF i > Len(body) THEN out
    ELSE RemoveIf(body, i + 1,
                  IF IsEpsilonObject(body[i]) THEN out ELSE Append(out, body[i]))

\* Production::Production(head, body, filtering); id is the object identity
ProductionCtor(head, body, filtering, id) ==
    [head |-> head,
     body |-> IF filtering THEN RemoveIf(body, 1, <<>>) ELSE body,
     id |-> id]

\* no Production object
NoProd == [head |-> GNull, body |-> <<>>, id |-> 0]

NoProdArgs == [given |-> FALSE, head |-> GNull, body |-> <<>>, filtering |-> TRUE]

\* heads and body symbols of the productions a caller constructs
ProdHeads == {GVar("S", 2), GVar("A", 1)}

BodyObjs == {GVar("A", 1), GTerm("a", 1), GTerm("eps", 1), GEps(1)}

Bodies == UNION {[1..n -> BodyObjs] : n \in 0..MaxBodyLen}

Range(f) == {f[i] : i \in DOMAIN f}

\* no CFG object
NoCfg == [cls |-> "none", variables_ |-> {}, terminals_ |-> {},
          start_symbol_ |-> GNull, productions_ |-> {}]

\* a null std::shared_ptr<CFG>
NullCfg == [NoCfg EXCEPT !.cls = "nullptr"]

\* CFG::initialize_production_in_cfg
InitializeProductionInCfg(g, production) ==
    [g EXCEPT !.variables_ = @ \cup {production.head}
                               \cup {o \in Range(production.body) : o.kind = "Variable"},
              !.terminals_ = @ \cup {o \in Range(production.body) : o.kind = "Terminal"}]

\* the loop of CFG::CFG over productions_
RECURSIVE InitializeProductions(_, _)
InitializeProductions(g, ps) ==
    IF ps = {} THEN g
    ELSE LET production == CHOOSE x \in ps : TRUE
         IN  InitializeProductions(InitializeProductionInCfg(g, production),
                                   ps \ {production})

\* CFG::CFG(variables, terminals, start_symbol, productions)
CfgCtor(variables, terminals, start_symbol, productions) ==
    InitializeProductions(
        [cls |-> "CFG",
         variables_ |-> variables \cup (IF start_symbol # GNull THEN {start_symbol} ELSE {}),
         terminals_ |-> terminals,
         start_symbol_ |-> start_symbol,
         productions_ |-> productions],
        productions)

\* CFG::contains: "Implementation will be added", return false
Contains(g, w) == FALSE

\* CFG::to_normal_form: "Implementation will be added", return nullptr
ToNormalForm(g) == NullCfg

\* productions a caller hands to the CFG constructor, all constructed with the
\* default filtering unless said otherwise
CandidateProds ==
    {ProductionCtor(GVar("S", 1), <<GVar("A", 1), GTerm("a", 1)>>, TRUE, 1),
     ProductionCtor(GVar("A", 1), <<GTerm("b", 1)>>, TRUE, 2),
     ProductionCtor(GVar("S", 2), <<GTerm("a", 2)>>, TRUE, 3),
     ProductionCtor(GVar("S", 1), <<GEps(1)>>, TRUE, 4),
     ProductionCtor(GVar("S", 1), <<GTerm("a", 1)>>, TRUE, 5),
     ProductionCtor(GVar("A", 1), <<GEps(1)>>, FALSE, 6),
     ProductionCtor(GVar("A", 1), <<GVar("S", 2)>>, TRUE, 7)}

\* arguments of the CFG constructor
CfgCtorArgs ==
    [variables : {{}, {GVar("S", 1), GVar("A", 1)}},
     terminals : {{}, {GTerm("a", 1), GTerm("b", 1)}},
     start_symbol : {GNull, GVar("S", 1)},
     productions : {ps \in SUBSET CandidateProds : Cardinality(ps) <= MaxProds}]

NoCfgArgs == [variables |-> {}, terminals |-> {}, start_symbol |-> GNull,
              productions |-> {}]

\* words a grammar is asked about
GrammarWords == UNION {[1..n -> {"a", "b"}] : n \in 0..MaxWordLen}

(***************************************************************************)
(* The parts of the library a run does not exercise stay at rest.          *)
(***************************************************************************)
\* the last call of a combining method: the receiver and the argument as they
\* were when it was called and as they are when it has returned
NoCall == [op |-> "none", this_before |-> NoRegex, other_before |-> NoRegex,
           this |-> NoRegex, other |-> NoRegex]

\* the methods are const and take const Regex&; the nodes of both trees are
\* shared with the new root and nothing is assigned to them
ConstCall(op, this, other) ==
    [op |-> op, this_before |-> this, other_before |-> other,
     this |-> this, other |-> other]

RegexIdle == rx = NoRegex /\ rxSrc = NoSrc /\ rxOps = 0 /\ rxCall = NoCall

GrammarIdle ==
    /\ prod = NoProd
    /\ prodArgs = NoProdArgs
    /\ cfg = NoCfg
    /\ cfgArgs = NoCfgArgs
    /\ gres = NoCfg
    /\ glast = "none"

\* std::nullopt and a filled std::optional<std::unordered_set<CFGObjectPtr>>
NullOpt == [has_value |-> FALSE, value |-> {}]

Some(S) == [has_value |-> TRUE, value |-> S]

\* no call of get_generating_or_nullable under way, both caches as constructed
WorklistIdle ==
    /\ impl = "header"
    /\ wcall = "none"
    /\ g_symbols = {}
    /\ to_process = <<>>
    /\ pushed = <<>>
    /\ generating_symbols_ = NullOpt
    /\ nullable_symbols_ = NullOpt

(***************************************************************************)
(* Construction.  An automaton is either default-constructed or built from *)
(* caller-supplied sets and a caller-supplied transition function whose    *)
(* single transition (q0 -y-> q1, or sink -a-> q0 out of a state the       *)
(* caller labelled "sink") the caller added beforehand.                    *)
(***************************************************************************)
Classes == {"DFA", "NFA", "EpsilonNFA"}

\* symbols of the transition in a caller-supplied transition function
CtorSyms == {Sy("a", 1), Sy("b", 1)}

CtorArgs ==
    {[given |-> FALSE, states |-> {}, syms |-> {}, tfsym |-> Sy("a", 1),
      tffrom |-> St("q0", 1), tfto |-> St("q1", 1),
      start |-> Null, finals |-> {}]}
    \cup
    {[given |-> TRUE, states |-> {St("q0", 1)}, syms |-> {Sy("a", 1)}, tfsym |-> y,
      tffrom |-> St("q0", 1), tfto |-> St("q1", 1),
      start |-> St("q0", 1), finals |-> {St("q1", 1)}] : y \in CtorSyms}
    \cup
    {[given |-> TRUE, states |-> {St("q0", 1), St("sink", 0)}, syms |-> {Sy("a", 1)},
      tfsym |-> Sy("a", 1), tffrom |-> St("sink", 0), tfto |-> St("q0", 1),
      start |-> St("sink", 0), finals |-> {St("q0", 1)}]}

\* the automaton the constructor of class c builds from args
Construct(c, args) ==
    IF c = "DFA"
    THEN DfaCtor(args.states, args.syms, args.start, args.finals)
    ELSE NfaCtor(c, args.states, args.syms,
                 IF args.start = Null THEN {} ELSE {args.start}, args.finals)

Init ==
    \E c \in Classes : \E args \in CtorArgs :
        /\ aut = Construct(c, args)
        /\ heapD = [i \in {NewTf} |->
                       IF c = "DFA" /\ args.given
                       THEN TF_add_transition({}, args.tffrom, args.tfsym, args.tfto)
                       ELSE {}]
        /\ heapN = [i \in {NewTf} |->
                       IF c # "DFA" /\ args.given
                       THEN NTF_add_transition({}, args.tffrom, args.tfsym, args.tfto)
                       ELSE {}]
        /\ ctor = IF args.given THEN "supplied" ELSE "default"
        /\ res = NoAut
        /\ pre = NoSnap
        /\ last = [op |-> "construct", hit |-> FALSE]
        /\ hist = {}
        /\ lastSet = Null
        /\ epsAdded = {}
        /\ symEpsAdded = {}
        /\ nsink = 0
        /\ nops = 0
        /\ RegexIdle
        /\ GrammarIdle
        /\ WorklistIdle

(***************************************************************************)
(* Operations.  Every call counts against MaxOps; res and pre describe the *)
(* last call of make_complete / complement only.                           *)
(***************************************************************************)
CanCall(classes) == nops < MaxOps /\ aut.cls \in classes

Step(op, hit) ==
    /\ nops' = nops + 1
    /\ last' = [op |-> op, hit |-> hit]
    /\ hist' = hist \cup {op}
    /\ UNCHANGED <<rxvars, gvars, wvars>>

Builder ==
    /\ res' = NoAut
    /\ pre' = NoSnap
    /\ nsink' = nsink

\* NondeterministicFiniteAutomaton::add_start_state (inherited by all classes)
add_start_state ==
    /\ CanCall(Classes)
    /\ \E s \in StateObjs :
        /\ Step("add_start_state", FALSE)
        /\ Builder
        /\ aut' = AddStartState(aut, s)
        /\ UNCHANGED <<heapD, heapN, ctor, lastSet, epsAdded, symEpsAdded>>

\* NondeterministicFiniteAutomaton::add_final_state (inherited by all classes)
add_final_state ==
    /\ CanCall(Classes)
    /\ \E s \in StateObjs :
        /\ Step("add_final_state", FALSE)
        /\ Builder
        /\ aut' = AddFinalState(aut, s)
        /\ UNCHANGED <<heapD, heapN, ctor, lastSet, epsAdded, symEpsAdded>>

\* DeterministicFiniteAutomaton::set_start_state
set_start_state ==
    /\ CanCall({"DFA"})
    /\ \E s \in StateObjs :
        /\ Step("set_start_state", FALSE)
        /\ Builder
        /\ aut' = SetStartState(aut, s)
        /\ lastSet' = s
        /\ UNCHANGED <<heapD, heapN, ctor, epsAdded, symEpsAdded>>

\* DeterministicFiniteAutomaton::add_transition
dfa_add_transition ==
    /\ CanCall({"DFA"})
    /\ \E from \in StateObjs, sym \in SymArgs(aut.cls), to \in StateObjs :
        /\ Step("add_transition",
                \E e \in heapD[aut.tf] :
                    e.from.label = from.label /\ e.sym.label = sym.label /\ e.to # to)
        /\ Builder
        /\ aut' = AddTransitionSets(aut, from, sym, to)
        /\ heapD' = [heapD EXCEPT ![aut.tf] = TF_add_transition(@, from, sym, to)]
        /\ UNCHANGED <<heapN, ctor, lastSet, epsAdded, symEpsAdded>>

\* NondeterministicFiniteAutomaton::add_transition (NFA and EpsilonNFA)
nfa_add_transition ==
    /\ CanCall({"NFA", "EpsilonNFA"})
    /\ \E from \in StateObjs, sym \in SymArgs(aut.cls), to \in StateObjs :
        /\ Step("add_transition",
                \E e \in heapN[aut.tf] :
                    e.from.label = from.label /\ e.sym.label = sym.label)
        /\ Builder
        /\ aut' = AddTransitionSets(aut, from, sym, to)
        /\ heapN' = [heapN EXCEPT ![aut.tf] = NTF_add_transition(@, from, sym, to)]
        /\ epsAdded' = IF sym.kind = "Epsilon"
                       THEN epsAdded \cup {<<from, to>>} ELSE epsAdded
        /\ symEpsAdded' = IF sym.kind = "Symbol" /\ sym.label = "eps"
                          THEN symEpsAdded \cup {<<from, to>>} ELSE symEpsAdded
        /\ UNCHANGED <<heapD, ctor, lastSet>>

\* EpsilonNFA::add_epsilon_transition
add_epsilon_transition ==
    /\ CanCall({"EpsilonNFA"})
    /\ \E from \in StateObjs, to \in StateObjs :
        /\ Step("add_epsilon_transition",
                \E e \in heapN[aut.tf] :
                    e.from.label = from.label /\ e.sym.label = EpsMember.label)
        /\ Builder
        /\ aut' = AddEpsilonSets(aut, from, to)
        /\ heapN' = [heapN EXCEPT ![aut.tf] = NTF_add_transition(@, from, EpsMember, to)]
        /\ epsAdded' = epsAdded \cup {<<from, to>>}
        /\ UNCHANGED <<heapD, ctor, lastSet, symEpsAdded>>

\* DeterministicFiniteAutomaton::make_complete, the result kept in res
make_complete ==
    /\ CanCall({"DFA"})
    /\ \E o \in MakeCompleteOutcomes(aut, heapD[aut.tf], St("sink", nsink + 1)) :
        /\ Step("make_complete", o.fresh = 1)
        /\ pre' = Observable(aut, heapD[aut.tf])
        /\ res' = o.r
        /\ heapD' = [heapD EXCEPT ![o.r.tf] = o.T]
        /\ nsink' = nsink + o.fresh
        /\ UNCHANGED <<aut, heapN, ctor, lastSet, epsAdded, symEpsAdded>>

\* DeterministicFiniteAutomaton::complement, the result kept in res
complement ==
    /\ CanCall({"DFA"})
    /\ \E o \in ComplementOutcomes(aut, heapD[aut.tf], St("sink", nsink + 1)) :
        /\ Step("complement", o.fresh = 1)
        /\ pre' = Observable(aut, heapD[aut.tf])
        /\ res' = o.r
        /\ heapD' = [heapD EXCEPT ![o.r.tf] = o.T]
        /\ nsink' = nsink + o.fresh
        /\ UNCHANGED <<aut, heapN, ctor, lastSet, epsAdded, symEpsAdded>>

\* a null std::shared_ptr to an automaton
NullAut == [NoAut EXCEPT !.cls = "nullptr"]

\* EpsilonNFA::to_deterministic: the subset construction is left out, the
\* method returns a null pointer whatever the automaton
ToDeterministic(a) == NullAut

\* DeterministicFiniteAutomaton::minimize: Hopcroft's algorithm is left out,
\* the method returns a null pointer whatever the automaton
Minimize(a) == NullAut

\* EpsilonNFA::epsilon_closure(const StatePtr&): "Implementation will be
\* added", return {state}
EpsilonClosureState(state) == {state}

\* EpsilonNFA::epsilon_closure(const StateSet&): "Implementation will be
\* added", return states
EpsilonClosure(states) == states

\* NondeterministicFiniteAutomaton::intersection (inherited by EpsilonNFA and
\* DeterministicFiniteAutomaton): "Implementation will be added", return
\* nullptr; the method has no throw statement
Intersection(a, other) == NullAut

\* EpsilonNFA::to_deterministic, the result kept in res
to_deterministic ==
    /\ CanCall({"EpsilonNFA"})
    /\ Step("to_deterministic", FALSE)
    /\ pre' = NoSnap
    /\ res' = ToDeterministic(aut)
    /\ UNCHANGED <<aut, heapD, heapN, ctor, lastSet, epsAdded, symEpsAdded, nsink>>

\* DeterministicFiniteAutomaton::minimize, the result kept in res
minimize ==
    /\ CanCall({"DFA"})
    /\ Step("minimize", FALSE)
    /\ pre' = Observable(aut, heapD[aut.tf])
    /\ res' = Minimize(aut)
    /\ UNCHANGED <<aut, heapD, heapN, ctor, lastSet, epsAdded, symEpsAdded, nsink>>

\* intersection of the automaton with itself, the result kept in res
intersection ==
    /\ CanCall(Classes)
    /\ Step("intersection", FALSE)
    /\ pre' = NoSnap
    /\ res' = Intersection(aut, aut)
    /\ UNCHANGED <<aut, heapD, heapN, ctor, lastSet, epsAdded, symEpsAdded, nsink>>

Next ==
    \/ add_start_state
    \/ add_final_state
    \/ set_start_state
    \/ dfa_add_transition
    \/ nfa_add_transition
    \/ add_epsilon_transition
    \/ make_complete
    \/ complement
    \/ to_deterministic
    \/ minimize
    \/ intersection

Spec == Init /\ [][Next]_vars

\* no automaton object
AutIdle ==
    /\ aut = NoAut
    /\ heapD = [i \in {NewTf} |-> {}]
    /\ heapN = [i \in {NewTf} |-> {}]
    /\ ctor = "default"
    /\ res = NoAut
    /\ pre = NoSnap
    /\ last = [op |-> "none", hit |-> FALSE]
    /\ hist = {}
    /\ lastSet = Null
    /\ epsAdded = {}
    /\ symEpsAdded = {}
    /\ nsink = 0
    /\ nops = 0

(***************************************************************************)
(* Regular expressions: a Regex is constructed from a string or from a     *)
(* leaf, and union_with / concatenate / kleene_star replace it by their    *)
(* result.                                                                 *)
(***************************************************************************)
InitRegex ==
    /\ \/ \E root \in RegexLeaves :
             /\ rx = RegexFromTree(root)
             /\ rxSrc = [kind |-> "tree", text |-> <<>>]
       \/ \E regex \in RegexStrings :
             /\ rx = RegexFromString(regex)
             /\ rxSrc = [kind |-> "string", text |-> regex]
    /\ rxOps = 0
    /\ rxCall = NoCall
    /\ AutIdle
    /\ GrammarIdle
    /\ WorklistIdle

RegexStep(op) ==
    /\ rxOps' = rxOps + 1
    /\ rxSrc' = [kind |-> op, text |-> <<>>]
    /\ UNCHANGED <<autvars, gvars, wvars>>

\* Regex::union_with
union_with ==
    /\ rxOps < MaxRegexOps
    /\ \E other \in RegexOthers :
        /\ rx' = UnionWith(rx, other)
        /\ rxCall' = ConstCall("union_with", rx, other)
        /\ RegexStep("union_with")

\* Regex::concatenate
concatenate ==
    /\ rxOps < MaxRegexOps
    /\ \E other \in RegexOthers :
        /\ rx' = Concatenate(rx, other)
        /\ rxCall' = ConstCall("concatenate", rx, other)
        /\ RegexStep("concatenate")

\* Regex::kleene_star
kleene_star ==
    /\ rxOps < MaxRegexOps
    /\ rx' = KleeneStar(rx)
    /\ rxCall' = ConstCall("kleene_star", rx, NoRegex)
    /\ RegexStep("kleene_star")

NextRegex ==
    \/ union_with
    \/ concatenate
    \/ kleene_star

SpecRegex == InitRegex /\ [][NextRegex]_vars

(***************************************************************************)
(* Grammars: a caller constructs one Production object and one CFG object  *)
(* (both stay as constructed) and asks the CFG for its normal form.        *)
(***************************************************************************)
InitCFG ==
    /\ GrammarIdle
    /\ AutIdle
    /\ RegexIdle
    /\ WorklistIdle

\* Production::Production
new_production ==
    /\ ~prodArgs.given
    /\ \E head \in ProdHeads, body \in Bodies, filtering \in BOOLEAN :
        /\ prod' = ProductionCtor(head, body, filtering, Cardinality(CandidateProds) + 1)
        /\ prodArgs' = [given |-> TRUE, head |-> head, body |-> body,
                        filtering |-> filtering]
        /\ glast' = "Production"
        /\ UNCHANGED <<cfg, cfgArgs, gres, autvars, rxvars, wvars>>

\* CFG::CFG
new_cfg ==
    /\ cfg.cls = "none"
    /\ \E args \in CfgCtorArgs :
        /\ cfg' = CfgCtor(args.variables, args.terminals, args.start_symbol,
                          args.productions)
        /\ cfgArgs' = args
        /\ gres' = NoCfg
        /\ glast' = "CFG"
        /\ UNCHANGED <<prod, prodArgs, autvars, rxvars, wvars>>

\* CFG::to_normal_form, the result kept in gres
to_normal_form ==
    /\ cfg.cls = "CFG"
    /\ gres' = ToNormalForm(cfg)
    /\ glast' = "to_normal_form"
    /\ UNCHANGED <<prod, prodArgs, cfg, cfgArgs, autvars, rxvars, wvars>>

NextCFG ==
    \/ new_production
    \/ new_cfg
    \/ to_normal_form

SpecCFG == InitCFG /\ [][NextCFG]_vars

(***************************************************************************)
(* Generating and nullable symbols.  get_generating_symbols and            *)
(* get_nullable_symbols fill their cache from get_generating_or_nullable,  *)
(* which the sources define twice: inline in the class (returning an empty *)
(* set) and in cfg.cpp (the worklist).  impl is the definition the build   *)
(* carries.  The worklist is followed one iteration of its while loop at a *)
(* time; unordered sets are iterated in any order.                         *)
(***************************************************************************)
\* the two definitions of CFG::get_generating_or_nullable
Impls == {"header", "cfg.cpp"}

\* the inline definition: "Implementation will be added", return {}
HeaderGetGeneratingOrNullable(nullable) == {}

\* auto epsilon = std::make_shared<Epsilon>(), an object of its own
WEpsilon == GEps(0)

\* the orders in which an unordered_set can be iterated
RECURSIVE Orders(_)
Orders(S) ==
    IF S = {} THEN {<<>>}
    ELSE UNION {{<<x>> \o o : o \in Orders(S \ {x})} : x \in S}

\* the loop body without its first test
ScanProductionNoSkip(st, production) ==
    IF \A i \in DOMAIN production.body : production.body[i] \in st.g
    THEN [g |-> st.g \cup {production.head}, q |-> Append(st.q, production.head)]
    ELSE st

\* the body of "for (const auto& production : productions_)": skip a head already
\* in g_symbols, else insert and push the head if every body symbol is in g_symbols
ScanProduction(st, production) ==
    IF production.head \in st.g THEN st
    ELSE IF \A i \in DOMAIN production.body : production.body[i] \in st.g
         THEN [g |-> st.g \cup {production.head}, q |-> Append(st.q, production.head)]
         ELSE st

\* one pass over productions_ in the order o
RECURSIVE ScanIn(_, _)
ScanIn(st, o) ==
    IF o = <<>> THEN st ELSE ScanIn(ScanProduction(st, Head(o)), Tail(o))

\* g_symbols and the heads pushed after one pass, for every iteration order
ScanOutcomes(g, productions) ==
    {ScanIn([g |-> g, q |-> <<>>], o) : o \in Orders(productions)}

InitWorklist ==
    /\ \E args \in CfgCtorArgs :
          /\ cfg = CfgCtor(args.variables, args.terminals, args.start_symbol,
                           args.productions)
          /\ cfgArgs = args
    /\ prod = NoProd
    /\ prodArgs = NoProdArgs
    /\ gres = NoCfg
    /\ glast = "CFG"
    /\ impl \in Impls
    /\ wcall = "none"
    /\ g_symbols = {}
    /\ to_process = <<>>
    /\ pushed = <<>>
    /\ generating_symbols_ = NullOpt
    /\ nullable_symbols_ = NullOpt
    /\ AutIdle
    /\ RegexIdle

\* cfg.cpp lines 9-23: epsilon, and the terminals unless nullable, are inserted
\* into g_symbols and pushed
Enter(nullable) ==
    LET seed == IF nullable THEN {} ELSE cfg.terminals_ IN
    \E o \in Orders(seed) :
        /\ g_symbols' = {WEpsilon} \cup seed
        /\ to_process' = <<WEpsilon>> \o o
        /\ pushed' = <<WEpsilon>> \o o

\* CFG::get_generating_symbols with an empty cache
get_generating_symbols ==
    /\ wcall = "none"
    /\ ~generating_symbols_.has_value
    /\ \/ /\ impl = "header"
          /\ generating_symbols_' = Some(HeaderGetGeneratingOrNullable(FALSE))
          /\ UNCHANGED <<wcall, g_symbols, to_process, pushed>>
       \/ /\ impl = "cfg.cpp"
          /\ Enter(FALSE)
          /\ wcall' = "generating"
          /\ UNCHANGED generating_symbols_
    /\ UNCHANGED <<impl, nullable_symbols_, autvars, rxvars, gvars>>

\* CFG::get_nullable_symbols with an empty cache
get_nullable_symbols ==
    /\ wcall = "none"
    /\ ~nullable_symbols_.has_value
    /\ \/ /\ impl = "header"
          /\ nullable_symbols_' = Some(HeaderGetGeneratingOrNullable(TRUE))
          /\ UNCHANGED <<wcall, g_symbols, to_process, pushed>>
       \/ /\ impl = "cfg.cpp"
          /\ Enter(TRUE)
          /\ wcall' = "nullable"
          /\ UNCHANGED nullable_symbols_
    /\ UNCHANGED <<impl, generating_symbols_, autvars, rxvars, gvars>>

\* one iteration of "while (!to_process.empty())": pop the front, scan productions_
process ==
    /\ wcall # "none"
    /\ to_process # <<>>
    /\ \E st \in ScanOutcomes(g_symbols, cfg.productions_) :
        /\ g_symbols' = st.g
        /\ to_process' = Tail(to_process) \o st.q
        /\ pushed' = pushed \o st.q
    /\ UNCHANGED <<impl, wcall, generating_symbols_, nullable_symbols_,
                   autvars, rxvars, gvars>>

\* the loop is left: g_symbols.erase(epsilon), return, and the getter fills its cache
return_symbols ==
    /\ wcall # "none"
    /\ to_process = <<>>
    /\ g_symbols' = g_symbols \ {WEpsilon}
    /\ IF wcall = "generating"
       THEN generating_symbols_' = Some(g_symbols') /\ UNCHANGED nullable_symbols_
       ELSE nullable_symbols_' = Some(g_symbols') /\ UNCHANGED generating_symbols_
    /\ wcall' = "none"
    /\ UNCHANGED <<impl, to_process, pushed, autvars, rxvars, gvars>>

NextWorklist ==
    \/ get_generating_symbols
    \/ get_nullable_symbols
    \/ process
    \/ return_symbols

\* a call under way keeps running
SpecWorklist ==
    InitWorklist /\ [][NextWorklist]_vars /\ WF_vars(process) /\ WF_vars(return_symbols)

(***************************************************************************)
(* Reference semantics used by the properties: automata read over labels,  *)
(* as the data model defines state equality.                               *)
(***************************************************************************)
\* default-constructed and assembled with the operations in ops only
BuiltWith(ops) == ctor = "default" /\ hist \subseteq ops

RECURSIVE RefRunD(_, _, _)
RefRunD(T, L, w) ==
    IF w = <<>> THEN L
    ELSE RefRunD(T,
                 {e.to.label : e \in {x \in T : x.from.label \in L /\ x.sym.label = Head(w)}},
                 Tail(w))

RefAcceptsD(a, T, w) ==
    RefRunD(T, Labels(a.start_states_), w) \cap Labels(a.final_states_) # {}

RECURSIVE RefRunN(_, _, _)
RefRunN(T, L, w) ==
    IF w = <<>> THEN L
    ELSE RefRunN(T,
                 UNION {Labels(e.tos) : e \in {x \in T : x.from.label \in L /\ x.sym.label = Head(w)}},
                 Tail(w))

RefAcceptsN(a, T, w) ==
    RefRunN(T, Labels(a.start_states_), w) \cap Labels(a.final_states_) # {}

\* the DFA of the documentation, assembled with one State object per label
RECURSIVE TestAdd(_)
TestAdd(ts) ==
    IF ts = <<>> THEN [a |-> DfaCtor({}, {}, Null, {}), T |-> {}]
    ELSE LET p == TestAdd(Tail(ts))
             t == Head(ts)
         IN [a |-> AddTransitionSets(p.a, St(t[1], 1), Sy(t[2], 1), St(t[3], 1)),
             T |-> TF_add_transition(p.T, St(t[1], 1), Sy(t[2], 1), St(t[3], 1))]

TestDfa ==
    LET p == TestAdd(<< <<"q0", "a", "q1">>, <<"q0", "b", "q0">>, <<"q1", "a", "q1">>,
                        <<"q1", "b", "q2">>, <<"q2", "a", "q1">>, <<"q2", "b", "q0">> >>)
    IN [a |-> AddFinalState(SetStartState(p.a, St("q0", 1)), St("q2", 1)), T |-> p.T]

TestDfaExpect ==
    /\ DfaAccepts(TestDfa.a, TestDfa.T, <<>>) = {FALSE}
    /\ DfaAccepts(TestDfa.a, TestDfa.T, <<"b">>) = {FALSE}
    /\ DfaAccepts(TestDfa.a, TestDfa.T, <<"a", "b">>) = {TRUE}
    /\ DfaAccepts(TestDfa.a, TestDfa.T, <<"b", "a", "b">>) = {TRUE}

\* C1: a DFA assembled with set_start_state, add_final_state and add_transition
\* accepts a word exactly when the run over the labels, from the start state,
\* meets no missing transition and ends in a final state (the empty word: exactly
\* when the start state is final); the documented DFA gives the documented answers.
C1_AcceptsIsLabelRun ==
    /\ TestDfaExpect
    /\ (aut.cls = "DFA"
         /\ BuiltWith({"set_start_state", "add_final_state", "add_transition"}))
        => \A w \in Words :
              DfaAccepts(aut, heapD[aut.tf], w) = {RefAcceptsD(aut, heapD[aut.tf], w)}

\* C2: an NFA built with add_start_state, add_final_state and add_transition accepts
\* a word exactly when the set simulation over the labels ends in a set that meets
\* the final states; accepts_epsilon() agrees with accepts of the empty word.
C2_NfaAcceptsIsSetSimulation ==
    (aut.cls = "NFA" /\ BuiltWith({"add_start_state", "add_final_state", "add_transition"}))
    => /\ \A w \in Words :
             NfaAccepts(aut, heapN[aut.tf], w) = RefAcceptsN(aut, heapN[aut.tf], w)
       /\ AcceptsEpsilon(aut) = NfaAccepts(aut, heapN[aut.tf], <<>>)

\* words whose symbols all carry the label of a member of input_symbols
OverAlphabet(a, w) == \A i \in DOMAIN w : w[i] \in Labels(a.input_symbols_)

\* C3: for a complete DFA D (one start state) and every word over its alphabet,
\* exactly one of D.accepts(w) and D.complement().accepts(w) is true.
C3_ExactlyOneOfDAndComplement ==
    (aut.cls = "DFA" /\ Cardinality(aut.start_states_) = 1 /\ IsComplete(aut, heapD[aut.tf]))
    => \A o \in ComplementOutcomes(aut, heapD[aut.tf], St("sink", nsink + 1)) :
         \A w \in {x \in Words : OverAlphabet(aut, x)} :
            \A x \in DfaAccepts(aut, o.T, w) : \A y \in DfaAccepts(o.r, o.T, w) : x # y

\* C4: make_complete() and complement() leave the DFA they are called on as it
\* was: same state set, alphabet, start and final states, transitions, is_complete().
C4_CompletionIsPure ==
    last.op \in {"make_complete", "complement"} => Observable(aut, heapD[aut.tf]) = pre

\* the states an automaton mentions in its transitions, start set and final set
Mentioned(a) ==
    a.start_states_ \cup a.final_states_ \cup
    (IF a.cls = "DFA"
     THEN UNION {{e.from, e.to} : e \in heapD[a.tf]}
     ELSE UNION {{e.from} \cup e.tos : e \in heapN[a.tf]})

\* C5: in every automaton, constructed, assembled or returned by make_complete /
\* complement, every state of a transition, of the start set and of the final set
\* is (by label) a member of the state set.
C5_StatesClosed ==
    \A a \in {aut} \cup (IF res.cls = "none" THEN {} ELSE {res}) :
        Labels(Mentioned(a)) \subseteq Labels(a.states_)

\* C6: a DFA's transition relation holds at most one target state for each
\* (state label, symbol label) pair, whatever add_transition calls were made.
C6_AtMostOneTarget ==
    aut.cls = "DFA"
    => \A e1 \in heapD[aut.tf] : \A e2 \in heapD[aut.tf] :
          (e1.from.label = e2.from.label /\ e1.sym.label = e2.sym.label) => e1.to = e2.to

\* C6 witness: add_transition was just called for a pair that already had a
\* different target.
C6_Witness ==
    aut.cls = "DFA" /\ last.op = "add_transition" /\ last.hit

\* C7: once set_start_state(s) was called, whatever builder operations follow, the
\* start set has exactly one element and start_state() is the state last given to
\* set_start_state.
C7_ExactlyOneStart ==
    lastSet # Null
    => Cardinality(aut.start_states_) = 1 /\ StartState(aut) = {lastSet}

\* the automaton had every call been made with one State object per label
Canon(s) == [s EXCEPT !.id = 1]

CanonAut(a) ==
    [a EXCEPT !.states_ = {Canon(s) : s \in @},
              !.start_states_ = {Canon(s) : s \in @},
              !.final_states_ = {Canon(s) : s \in @}]

CanonD(T) == {[e EXCEPT !.from = Canon(@), !.to = Canon(@)] : e \in T}

CanonN(T) == {[e EXCEPT !.from = Canon(@), !.tos = {Canon(s) : s \in @}] : e \in T}

NoTwoWithSameLabel(S) == \A s \in S : \A t \in S : s.label = t.label => s = t

\* C8: states are equal by label: no state set, start set or final set holds two
\* entries with the same label, and accepts(w) does not depend on which State
\* object carrying a label was passed to the builder operations.
C8_EqualByLabel ==
    /\ NoTwoWithSameLabel(aut.states_)
    /\ NoTwoWithSameLabel(aut.start_states_)
    /\ NoTwoWithSameLabel(aut.final_states_)
    /\ \A w \in Words :
          Accepts(aut, heapD[aut.tf], heapN[aut.tf], w)
          = Accepts(CanonAut(aut), CanonD(heapD[aut.tf]), CanonN(heapN[aut.tf]), w)

\* targets of the epsilon transitions added out of the states labelled like p
EpsTargets(p) == {pr[2] : pr \in {x \in epsAdded : x[1].label = p.label}}

\* targets of the transitions added out of the states labelled like p on an
\* ordinary Symbol whose label is the epsilon text
SymEpsTargets(p) == {pr[2] : pr \in {x \in symEpsAdded : x[1].label = p.label}}

\* C9: epsilon never equals a labelled symbol with the same text: in an automaton
\* holding an epsilon transition out of p, reading a symbol labelled with the
\* epsilon text at p follows only the transitions added on such a symbol, and the
\* epsilon transitions out of p are stored apart from those.
C9_EpsilonDistinct ==
    aut.cls = "EpsilonNFA"
    => \A pr \in epsAdded :
          /\ NTF_get_next_states(heapN[aut.tf], pr[1], MakeSymbol("eps")) = SymEpsTargets(pr[1])
          /\ NTF_get_next_states(heapN[aut.tf], pr[1], EpsMember) = EpsTargets(pr[1])

\* C10: a DFA or NFA, assembled or constructed from caller-supplied sets, rejects
\* every word holding a symbol whose label is not in input_symbols.
C10_OutsideAlphabetRejected ==
    aut.cls \in {"DFA", "NFA"}
    => \A w \in {x \in Words : ~OverAlphabet(aut, x)} :
          Accepts(aut, heapD[aut.tf], heapN[aut.tf], w) = {FALSE}

\* C11: determinization preserves the language: after N.to_deterministic() the
\* result is a DFA, and it accepts exactly the words N accepts.
C11_DeterminizationPreservesLanguage ==
    last.op = "to_deterministic"
    => /\ res.cls = "DFA"
       /\ \A w \in Words :
             Accepts(res, heapD[res.tf], heapN[res.tf], w)
             = Accepts(aut, heapD[aut.tf], heapN[aut.tf], w)

\* C12: minimization preserves the language and never adds states: after
\* D.minimize() the result is a DFA accepting exactly the words D accepts, with
\* at most as many states as D.
C12_MinimizationPreservesLanguage ==
    last.op = "minimize"
    => /\ res.cls = "DFA"
       /\ \A w \in Words :
             Accepts(res, heapD[res.tf], heapN[res.tf], w)
             = Accepts(aut, heapD[aut.tf], heapN[aut.tf], w)
       /\ Cardinality(res.states_) <= Cardinality(aut.states_)

\* labels reachable from the labels L over the epsilon transitions added so far
RECURSIVE RefEpsClosure(_)
RefEpsClosure(L) ==
    LET M == L \cup {pr[2].label : pr \in {x \in epsAdded : x[1].label \in L}}
    IN  IF M = L THEN L ELSE RefEpsClosure(M)

\* labels reached from the labels L by one transition on the symbol labelled x
RefSymStep(T, L, x) ==
    IF x = EpsMember.label
    THEN {pr[2].label : pr \in {y \in symEpsAdded : y[1].label \in L}}
    ELSE UNION {Labels(e.tos) : e \in {y \in T : y.from.label \in L /\ y.sym.label = x}}

RECURSIVE RefRunE(_, _, _)
RefRunE(T, L, w) ==
    IF w = <<>> THEN L
    ELSE RefRunE(T, RefEpsClosure(RefSymStep(T, L, Head(w))), Tail(w))

\* epsilon-closed set simulation over labels
RefAcceptsE(a, T, w) ==
    RefRunE(T, RefEpsClosure(Labels(a.start_states_)), w) \cap Labels(a.final_states_) # {}

\* C20: an assembled epsilon-NFA accepts a word over its alphabet exactly when the
\* epsilon-closed set simulation ends in a set holding a final state; the empty
\* word is accepted, by accepts and by accepts_epsilon, exactly when the epsilon
\* closure of the start states holds a final state.
C20_EpsilonClosedSimulation ==
    (aut.cls = "EpsilonNFA" /\ ctor = "default")
    => /\ \A w \in {x \in Words : OverAlphabet(aut, x)} :
             EnfaAccepts(aut, heapN[aut.tf], w) = RefAcceptsE(aut, heapN[aut.tf], w)
       /\ AcceptsEpsilon(aut) = RefAcceptsE(aut, heapN[aut.tf], <<>>)

(***************************************************************************)
(* Regular expressions and grammars: reference semantics and properties.   *)
(***************************************************************************)
\* the word w is in the language of the parse tree t
RECURSIVE InLanguage(_, _)
InLanguage(t, w) ==
    CASE t.op = "Symbol" -> w = <<t.value>>
      [] t.op = "Epsilon" -> w = <<>>
      [] t.op = "EmptyLanguage" -> FALSE
      [] t.op = "Concatenation" ->
            \E k \in 0..Len(w) : /\ InLanguage(t.left, SubSeq(w, 1, k))
                                 /\ InLanguage(t.right, SubSeq(w, k + 1, Len(w)))
      [] t.op = "Union" -> InLanguage(t.left, w) \/ InLanguage(t.right, w)
      [] t.op = "KleeneStar" ->
            \/ w = <<>>
            \/ \E k \in 1..Len(w) : /\ InLanguage(t.obj, SubSeq(w, 1, k))
                                    /\ InLanguage(t, SubSeq(w, k + 1, Len(w)))

\* the parse tree of (a+b)*ab
TestRegexTree ==
    RConcatenation(RKleeneStar(RUnion(RSymbol("a"), RSymbol("b"))),
                   RConcatenation(RSymbol("a"), RSymbol("b")))

\* C13: Regex.accepts(w) is true exactly when w is in the language of the parse
\* tree; the regex (a+b)*ab accepts [a,b], [a,a,b] and [a,b,a,b] and rejects [b,a].
C13_RegexAcceptsIsLanguage ==
    /\ \A w \in RegexWords : RegexAccepts(rx, w) = InLanguage(rx.root, w)
    /\ rx.root = TestRegexTree
       => /\ RegexAccepts(rx, <<"a", "b">>)
          /\ RegexAccepts(rx, <<"a", "a", "b">>)
          /\ ~RegexAccepts(rx, <<"b", "a">>)
          /\ RegexAccepts(rx, <<"a", "b", "a", "b">>)

\* the rendering the documentation and the test give: a Kleene star is its
\* operand's rendering followed by "*"
RECURSIVE RefRender(_)
RefRender(t) ==
    CASE t.op = "Concatenation" -> "(" \o RefRender(t.left) \o " · " \o RefRender(t.right) \o ")"
      [] t.op = "Union" -> "(" \o RefRender(t.left) \o " + " \o RefRender(t.right) \o ")"
      [] t.op = "KleeneStar" -> RefRender(t.obj) \o "*"
      [] t.op = "Symbol" -> t.value
      [] OTHER -> RegexObjectToString(t)

\* C14: Regex.to_string() renders a symbol as its label, a union as "(L + R)", a
\* concatenation as "(L · R)" and a Kleene star as its operand's rendering
\* followed by "*"; the tree of (a+b)*ab renders as "((a + b)* · (a · b))".
C14_ToStringRendering ==
    /\ RegexToString(rx) = RefRender(rx.root)
    /\ rx.root = TestRegexTree => RegexToString(rx) = "((a + b)* · (a · b))"

\* parenthesis depth after the first n characters of s
RECURSIVE ParenDepth(_, _)
ParenDepth(s, n) ==
    IF n = 0 THEN 0
    ELSE ParenDepth(s, n - 1)
         + (IF s[n] = "(" THEN 1 ELSE IF s[n] = ")" THEN -1 ELSE 0)

UnmatchedParenthesis(s) ==
    \/ \E n \in 1..Len(s) : ParenDepth(s, n) < 0
    \/ ParenDepth(s, Len(s)) # 0

OperatorInOperandPosition(s) ==
    \E n \in 1..Len(s) :
        /\ s[n] \in {"+", "*"}
        /\ (n = 1 \/ s[n - 1] \in {"(", "+"})

TrailingOperator(s) == s # <<>> /\ s[Len(s)] = "+"

Malformed(s) ==
    UnmatchedParenthesis(s) \/ OperatorInOperandPosition(s) \/ TrailingOperator(s)

\* C15: constructing a Regex from a malformed string (unmatched parenthesis,
\* operator in operand position, trailing operator) fails with a parse error and
\* yields no tree.
C15_MalformedFailsToParse ==
    (rxSrc.kind = "string" /\ Malformed(rxSrc.text))
    => rx.error = "RegexParsingException"

\* CFG grammar(variables {S, A}, terminals {a, b}, start S, productions S -> A a, A -> b)
TestGrammarArgs ==
    [variables |-> {GVar("S", 1), GVar("A", 1)},
     terminals |-> {GTerm("a", 1), GTerm("b", 1)},
     start_symbol |-> GVar("S", 1),
     productions |-> {ProductionCtor(GVar("S", 1), <<GVar("A", 1), GTerm("a", 1)>>, TRUE, 1),
                      ProductionCtor(GVar("A", 1), <<GTerm("b", 1)>>, TRUE, 2)}]

\* C16: in a constructed grammar the start symbol is a variable of the grammar,
\* every production's head and body variables are in the variable set, every
\* body terminal is in the terminal set, and symbols with the same label count
\* once; the test grammar has exactly 2 variables, 2 terminals and 2 productions.
C16_GrammarConstruction ==
    cfg.cls = "CFG"
    => /\ cfg.start_symbol_ # GNull => cfg.start_symbol_ \in cfg.variables_
       /\ \A p \in cfg.productions_ :
             /\ p.head \in cfg.variables_
             /\ \A o \in Range(p.body) :
                   /\ o.kind = "Variable" => o \in cfg.variables_
                   /\ o.kind = "Terminal" => o \in cfg.terminals_
       /\ NoTwoWithSameLabel(cfg.variables_)
       /\ NoTwoWithSameLabel(cfg.terminals_)
       /\ cfgArgs = TestGrammarArgs
          => /\ Cardinality(cfg.variables_) = 2
             /\ Cardinality(cfg.terminals_) = 2
             /\ Cardinality(cfg.productions_) = 2

\* positions of a body that hold something else than an Epsilon object
KeptPositions(body) == {i \in DOMAIN body : body[i].kind # "Epsilon"}

\* C17: a Production constructed with the default filtering holds no Epsilon
\* object in its body and keeps the other symbols in their given order (a body of
\* Epsilon objects only becomes empty); with filtering disabled the body is
\* stored exactly as given.
C17_ProductionFiltersEpsilon ==
    prodArgs.given
    => IF prodArgs.filtering
       THEN /\ \A i \in DOMAIN prod.body : prod.body[i].kind # "Epsilon"
            /\ Len(prod.body) = Cardinality(KeptPositions(prodArgs.body))
            /\ \A i \in KeptPositions(prodArgs.body) :
                  prod.body[Cardinality({j \in KeptPositions(prodArgs.body) : j <= i})]
                  = prodArgs.body[i]
            /\ KeptPositions(prodArgs.body) = {} => prod.body = <<>>
       ELSE prod.body = prodArgs.body

\* a filtered production whose given body mixed Epsilon objects with other symbols
C17_Witness ==
    /\ prodArgs.given
    /\ prodArgs.filtering
    /\ \E i \in DOMAIN prodArgs.body : prodArgs.body[i].kind = "Epsilon"
    /\ prod.body # <<>>

\* the body from position k on derives w[i+1..j], given the derived spans D
RECURSIVE MatchBody(_, _, _, _, _, _)
MatchBody(body, k, i, j, w, D) ==
    IF k > Len(body) THEN i = j
    ELSE \E m \in i..j :
            /\ CASE body[k].kind = "Terminal" -> m = i + 1 /\ w[m] = body[k].label
                 [] body[k].kind = "Variable" -> <<body[k].label, i, m>> \in D
                 [] OTHER -> m = i
            /\ MatchBody(body, k + 1, m, j, w, D)

\* least set of <<variable label, i, j>> such that the variable derives w[i+1..j]
RECURSIVE DerivedSpans(_, _, _)
DerivedSpans(P, w, D) ==
    LET D2 == D \cup {t \in {p.head.label : p \in P} \X (0..Len(w)) \X (0..Len(w)) :
                        /\ t[2] <= t[3]
                        /\ \E p \in P : /\ p.head.label = t[1]
                                        /\ MatchBody(p.body, 1, t[2], t[3], w, D)}
    IN  IF D2 = D THEN D ELSE DerivedSpans(P, w, D2)

\* the start symbol derives w
RefDerives(g, w) ==
    /\ g.start_symbol_ # GNull
    /\ <<g.start_symbol_.label, 0, Len(w)>> \in DerivedSpans(g.productions_, w, {})

\* the grammar S -> A B, A -> a A | a, B -> b B | b of the documentation
DocGrammar ==
    LET S == GVar("S", 1)
        A == GVar("A", 1)
        B == GVar("B", 1)
        a == GTerm("a", 1)
        b == GTerm("b", 1)
    IN  CfgCtor({S, A, B}, {a, b}, S,
                {ProductionCtor(S, <<A, B>>, TRUE, 1),
                 ProductionCtor(A, <<a, A>>, TRUE, 2),
                 ProductionCtor(A, <<a>>, TRUE, 3),
                 ProductionCtor(B, <<b, B>>, TRUE, 4),
                 ProductionCtor(B, <<b>>, TRUE, 5)})

\* C18: Grammar.contains(w) is true exactly when the start symbol derives w; the
\* documentation's grammar contains [a,a,b,b] and neither [a,b,a] nor [].
C18_ContainsIsDerivation ==
    cfg.cls = "CFG"
    => /\ \A w \in GrammarWords : Contains(cfg, w) = RefDerives(cfg, w)
       /\ Contains(DocGrammar, <<"a", "a", "b", "b">>)
       /\ ~Contains(DocGrammar, <<"a", "b", "a">>)
       /\ ~Contains(DocGrammar, <<>>)

\* C19: normalization preserves the language: after G.to_normal_form() the result
\* is a grammar, and it contains exactly the words G contains.
C19_NormalFormPreservesLanguage ==
    glast = "to_normal_form"
    => /\ gres.cls = "CFG"
       /\ \A w \in GrammarWords : Contains(gres, w) = Contains(cfg, w)

(***************************************************************************)
(* Alphabet, completion, complement, closure and product of automata.      *)
(***************************************************************************)
\* C21: the alphabet never contains epsilon: after any sequence of add_transition
\* and add_epsilon_transition calls, also add_transition called with an Epsilon
\* object as the symbol, no element of input_symbols is an Epsilon object.
C21_AlphabetExcludesEpsilon ==
    \A y \in aut.input_symbols_ : y.kind # "Epsilon"

\* C22: D.make_complete() is complete; if D was already complete the result has
\* the states and transitions of D; otherwise it has exactly one more state, a
\* fresh sink that is not final and loops to itself on every symbol, every
\* (state, symbol) pair of D that had a transition keeps its target and every
\* pair that had none goes to the sink.
C22_MakeCompleteResult ==
    last.op = "make_complete"
    => LET T == heapD[res.tf] IN
       /\ IsComplete(res, T)
       /\ pre.is_complete => (res.states_ = pre.states /\ T = pre.transitions)
       /\ ~pre.is_complete
          => \E sink \in res.states_ \ pre.states :
                /\ res.states_ = pre.states \cup {sink}
                /\ sink \notin res.final_states_
                /\ \A y \in res.input_symbols_ : TF_get_next_state(T, sink, y) = sink
                /\ \A s \in pre.states : \A y \in pre.input_symbols :
                      LET old == TF_get_next_state(pre.transitions, s, y) IN
                      TF_get_next_state(T, s, y) = IF old # Null THEN old ELSE sink

\* C23: make_complete preserves the language of every DFA D, also of a D that has
\* a state labelled "sink": D.make_complete() accepts exactly the words D
\* accepted, and no transition D had out of one of its own states is replaced.
C23_MakeCompletePreservesLanguage ==
    last.op = "make_complete"
    => LET T == heapD[res.tf] IN
       /\ \A w \in Words : DfaAccepts(res, T, w) = DfaAccepts(aut, pre.transitions, w)
       /\ \A e \in pre.transitions :
             e.from.label \in Labels(pre.states)
             => TF_get_next_state(T, e.from, e.sym) = e.to

\* C24: for a complete DFA D, D.complement() has the state set, the alphabet, the
\* transition relation and the start state of D, and its final states are exactly
\* the states of D that are not final in D.
C24_ComplementFrame ==
    (last.op = "complement" /\ pre.is_complete)
    => /\ res.states_ = pre.states
       /\ res.input_symbols_ = pre.input_symbols
       /\ heapD[res.tf] = pre.transitions
       /\ Labels(res.start_states_) = Labels(pre.start_states)
       /\ res.final_states_ = pre.states \ pre.final_states

\* a symbol as the specification identifies it: by kind and label
ByLabel(S) == {<<o.kind, o.label>> : o \in S}

\* one round of the closure rule over labels: a head joins G when every body
\* symbol is in G, an epsilon in a body counting as satisfied
RefGrow(G) ==
    G \cup {<<p.head.kind, p.head.label>> : p \in
               {q \in cfg.productions_ :
                   \A i \in DOMAIN q.body :
                      \/ q.body[i].kind = "Epsilon"
                      \/ <<q.body[i].kind, q.body[i].label>> \in G}}

RECURSIVE RefLeast(_)
RefLeast(G) == IF RefGrow(G) = G THEN G ELSE RefLeast(RefGrow(G))

\* the least set of the specification: seeded with nothing for the nullable
\* symbols, with the terminals for the generating symbols
RefFix(nullable) == RefLeast(IF nullable THEN {} ELSE ByLabel(cfg.terminals_))

\* C25: get_nullable_symbols returns the least set G of variables such that a
\* head is in G whenever all body symbols of one of its productions are in G
\* (an empty body counts), get_generating_symbols the least such set seeded
\* with the terminals (terminals included, epsilon never), symbols being
\* matched by label.
C25_GeneratingNullableLeastSets ==
    /\ nullable_symbols_.has_value
       => ByLabel(nullable_symbols_.value) = RefFix(TRUE)
    /\ generating_symbols_.has_value
       => ByLabel(generating_symbols_.value) = RefFix(FALSE)

\* how many times the object o was pushed onto to_process during the call
TimesPushed(o) == Cardinality({i \in DOMAIN pushed : pushed[i] = o})

\* while the loop runs, g_symbols never loses an element
GOnlyGrows ==
    [][(wcall # "none" /\ wcall' # "none") => g_symbols \subseteq g_symbols']_vars

\* a head is pushed when it is added to g_symbols, and at most once
HeadsPushedOnce ==
    \A p \in cfg.productions_ :
        /\ TimesPushed(p.head) <= 1
        /\ (wcall # "none" /\ p.head \in g_symbols) => TimesPushed(p.head) = 1

C27_EpsilonClosureIsReachability ==
    (aut.cls = "EpsilonNFA" /\ ctor = "default")
    => /\ \A S \in SUBSET aut.states_ :
             Labels(EpsilonClosure(S)) = RefEpsClosure(Labels(S))
       /\ \A s \in aut.states_ : EpsilonClosureState(s) = EpsilonClosure({s})

\* C28: intersection of automata of which one contains an epsilon transition is
\* rejected with an explicit error and never returns normally with a missing
\* result; without epsilon transitions it returns the product automaton, which
\* accepts a word iff both operands accept it.
C28_IntersectionRejectedOrProduct ==
    last.op = "intersection"
    => /\ res # NullAut
       /\ epsAdded # {} => res.cls = "exception"
       /\ epsAdded = {}
          => /\ res.cls \in Classes
             /\ \A w \in Words :
                   Accepts(res, heapD[res.tf], heapN[res.tf], w)
                   = Accepts(aut, heapD[aut.tf], heapN[aut.tf], w)

\* C29: union_with, concatenate and kleene_star return a new Regex whose root is
\* Union(this, other), Concatenation(this, other) and KleeneStar(this), the
\* operands in that order, and leave the trees and the to_string of this and
\* of other as they were.
C29_CombinatorsBuildNewRoot ==
    /\ rxCall.op = "union_with"
       => rx.root = RUnion(rxCall.this_before.root, rxCall.other_before.root)
    /\ rxCall.op = "concatenate"
       => rx.root = RConcatenation(rxCall.this_before.root, rxCall.other_before.root)
    /\ rxCall.op = "kleene_star"
       => rx.root = RKleeneStar(rxCall.this_before.root)
    /\ rxCall.op # "none"
       => /\ rxCall.this.root = rxCall.this_before.root
          /\ rxCall.other.root = rxCall.other_before.root
          /\ RegexToString(rxCall.this) = RegexToString(rxCall.this_before)
          /\ RegexToString(rxCall.other) = RegexToString(rxCall.other_before)

\* concatenate has returned for two different operands, the receiver itself a
\* combination
C29_Witness ==
    /\ rxCall.op = "concatenate"
    /\ rxCall.this_before.root # rxCall.other_before.root
    /\ rxCall.this_before.root.op \in {"Union", "KleeneStar"}
    /\ rx.root.op = "Concatenation"
    /\ rx.root.left = rxCall.this_before.root

====
